---- MODULE Spec2Model ----
(***************************************************************************)
(* Model of ThreadsBot (src/threads_bot.py): the grouping of the rows of   *)
(* the Posts sheet, the choice and ordering of one group, the publish loop *)
(* with its cell writes, and the full reset that starts a new cycle.       *)
(*                                                                         *)
(* Cell values are sequences of one-character strings, so that upper(),    *)
(* strip() and the construction of the group keys are computed as the      *)
(* code computes them.  The Threads API, the sheet API and the token       *)
(* endpoint are collaborators: each call either returns or raises, chosen  *)
(* nondeterministically.  A call that raises has no effect on the sheet.   *)
(***************************************************************************)
EXTENDS Integers, Sequences, FiniteSets, TLC

\* ---------------------------------------------------------------- bounds
\* largest number of data rows of the Posts sheet
MaxRows == 3
\* number of scheduled runs of the bot that are explored
MaxRuns == 2
\* largest number of records handed to get_unposted_groups in SpecGroup
MaxRecords == 3

\* ------------------------------------------------------ program constants
\* column of the posted flag in update_cell(row_index, 3, 'TRUE')
PostedCol == 3
\* column of the published id in update_cell(row_index, 6, thread_id)
PublishedIdCol == 6
\* offset of enumerate()'s index to the sheet row: post['row_index'] = i + 2
HeaderOffset == 2
\* refresh_token_if_needed refreshes when days_until_expiry <= 7
RefreshThresholdDays == 7
\* HTTP status that refresh_token_if_needed accepts
StatusOK == 200

\* ---------------------------------------------------------------- strings
TRUE_STR == <<"T", "R", "U", "E">>
FALSE_STR == <<"F", "A", "L", "S", "E">>
THREAD_PREFIX == <<"T", "H", "R", "E", "A", "D", "_">>
SINGLE_PREFIX == <<"S", "I", "N", "G", "L", "E", "_">>
EMPTY_STR == << >>

\* str.upper() on one character (the letters that occur in the model)
UpperChar(c) ==
    CASE c = "t" -> "T"
      [] c = "r" -> "R"
      [] c = "u" -> "U"
      [] c = "e" -> "E"
      [] c = "f" -> "F"
      [] c = "a" -> "A"
      [] c = "l" -> "L"
      [] c = "s" -> "S"
      [] c = "b" -> "B"
      [] c = "x" -> "X"
      [] OTHER -> c

\* upper() left out of the comparison of line 174
upper_omitted(s) == s

\* s.upper()
upper(s) == [i \in 1..Len(s) |-> UpperChar(s[i])]

\* the characters str.strip() removes
Whitespace == {" ", "\t", "\n"}

RECURSIVE lstrip(_)
lstrip(s) ==
    IF s = << >> THEN << >>
    ELSE IF Head(s) \in Whitespace THEN lstrip(Tail(s)) ELSE s

RECURSIVE rstrip(_)
rstrip(s) ==
    IF s = << >> THEN << >>
    ELSE IF s[Len(s)] \in Whitespace THEN rstrip(SubSeq(s, 1, Len(s) - 1)) ELSE s

\* s.strip()
strip(s) == rstrip(lstrip(s))

\* one decimal digit as a character
DigitChar(d) ==
    CASE d = 0 -> "0" [] d = 1 -> "1" [] d = 2 -> "2" [] d = 3 -> "3"
      [] d = 4 -> "4" [] d = 5 -> "5" [] d = 6 -> "6" [] d = 7 -> "7"
      [] d = 8 -> "8" [] d = 9 -> "9"

\* str(i) of a non-negative integer, as f"SINGLE_{i}" formats it
RECURSIVE IntToStr(_)
IntToStr(i) ==
    IF i < 10 THEN <<DigitChar(i)>>
    ELSE Append(IntToStr(i \div 10), DigitChar(i % 10))

\* the test  sub in s  on strings
Contains(sub, s) ==
    \E k \in 0..(Len(s) - Len(sub)) : SubSeq(s, k + 1, k + Len(sub)) = sub

\* ------------------------------------------------------------------ values
\* A thread_order cell as get_all_records returns it: an int, or a str that
\* is empty or is not a number (numeric cells are returned as numbers).
IntOrder(n) == [kind |-> "int", val |-> n, txt |-> EMPTY_STR]
StrOrder(s) == [kind |-> "str", val |-> 0, txt |-> s]

\* a data row of the Posts sheet
SheetRow(p, t, o) ==
    [posted |-> p, thread_id |-> t, thread_order |-> o, published_id |-> 0]

\* posts_sheet.get_all_records(): one dict per data row
get_all_records(sh) ==
    [i \in 1..Len(sh) |->
        [posted |-> sh[i].posted, thread_id |-> sh[i].thread_id,
         thread_order |-> sh[i].thread_order, row_index |-> 0]]

\* ---------------------------------------------------------------- grouping
\* the condition of line 174
IsUnposted(post) == upper(post.posted) # TRUE_STR

\* the group key with the row position left out of the standalone key
GroupKey_no_position(post, i) ==
    LET thread_id_val == strip(post.thread_id)
    IN  IF thread_id_val # EMPTY_STR
        THEN THREAD_PREFIX \o thread_id_val
        ELSE SINGLE_PREFIX

\* the group key of lines 177-182 for the record at enumerate() index i
GroupKey(post, i) ==
    LET thread_id_val == strip(post.thread_id)
    IN  IF thread_id_val # EMPTY_STR
        THEN THREAD_PREFIX \o thread_id_val
        ELSE SINGLE_PREFIX \o IntToStr(i)

\* the loop of get_unposted_groups from index i on
RECURSIVE GroupFrom(_, _, _)
GroupFrom(records, i, groups) ==
    IF i >= Len(records) THEN groups
    ELSE LET post == records[i + 1]
         IN  IF IsUnposted(post)
             THEN LET indexed == [post EXCEPT !.row_index = i + HeaderOffset]
                      group_key == GroupKey(post, i)
                      started == IF group_key \in DOMAIN groups
                                 THEN groups
                                 ELSE groups @@ (group_key :> << >>)
                  IN  GroupFrom(records, i + 1,
                                [started EXCEPT ![group_key] = Append(@, indexed)])
             ELSE GroupFrom(records, i + 1, groups)

\* get_unposted_groups(records): group key -> list of posts
get_unposted_groups(records) == GroupFrom(records, 0, << >>)

\* the records after get_unposted_groups has set row_index on the unposted
with_row_index(records) ==
    [i \in 1..Len(records) |->
        IF IsUnposted(records[i])
        THEN [records[i] EXCEPT !.row_index = (i - 1) + HeaderOffset]
        ELSE records[i]]

\* the reset condition with the test of the groups left out
needs_reset_always(groups) == TRUE

\* line 347: if not post_groups
needs_reset(groups) == DOMAIN groups = {}

\* ---------------------------------------------------------------- ordering
\* int(x.get('thread_order') or 0) raises ValueError
sort_key_raises(post) ==
    post.thread_order.kind = "str" /\ post.thread_order.txt # EMPTY_STR

\* int(x.get('thread_order') or 0) when it does not raise
sort_key(post) ==
    IF post.thread_order.kind = "int" THEN post.thread_order.val ELSE 0

\* insert x behind every element whose key is not larger (stable)
InsertStable(s, x) ==
    LET p == Cardinality({i \in 1..Len(s) : sort_key(s[i]) <= sort_key(x)})
    IN  SubSeq(s, 1, p) \o <<x>> \o SubSeq(s, p + 1, Len(s))

\* list.sort(key=...) : stable, ascending
RECURSIVE sorted_posts(_)
sorted_posts(s) ==
    IF s = << >> THEN << >>
    ELSE InsertStable(sorted_posts(SubSeq(s, 1, Len(s) - 1)), s[Len(s)])

\* ------------------------------------------------------------------- state
VARIABLES
    sheet,               \* the data rows of the Posts sheet (durable)
    pc,                  \* position of the run in ThreadsBot.run
    exit_code,           \* exit status of the process, -1 while it runs
    all_posts,           \* run(): all_posts
    post_groups,         \* run(): post_groups
    selected_group_key,  \* run(): selected_group_key
    selected_posts,      \* run(): selected_posts
    idx,                 \* run(): idx of the for loop
    previous_thread_id,  \* run(): previous_thread_id, 0 for None
    returned_id,         \* run(): thread_id / reply_id of the last publish, 0 for None
    no_unposted,         \* history: the first grouping of this run was empty
    log,                 \* history: the collaborator calls of this run, in order
    published,           \* history: rows published since the last full reset
    repeated,            \* history: rows published again within one cycle
    runs,                \* number of the current run
    call                 \* the frame of one post_to_threads / post_reply call

vars == <<sheet, pc, exit_code, all_posts, post_groups, selected_group_key,
          selected_posts, idx, previous_thread_id, returned_id, no_unposted,
          log, published, repeated, runs, call>>

\* no publish call is looked at
NoCall == [fn |-> "none"]

\* one collaborator call: op is "publish", "update_cell" or "update"
Event(op, row, last, col, val, id, parent, res) ==
    [op |-> op, row |-> row, last |-> last, col |-> col, val |-> val,
     id |-> id, parent |-> parent, res |-> res]

\* the id the platform returns: different from every id returned before,
\* in this run and in the earlier runs (a run publishes at most MaxRows posts)
NewId ==
    (runs - 1) * MaxRows
      + Cardinality({k \in 1..Len(log) : log[k].op = "publish" /\ log[k].res = "ok"}) + 1

\* outcomes of post_to_threads / post_reply: an id, None, or an exception
PublishOutcomes == {"ok", "none", "raise"}
\* outcomes of a sheet call
CallOutcomes == {"ok", "raise"}
\* days_until_expiry seen by refresh_token_if_needed
ExpiryDays == {3, 30}
\* status codes of the refresh endpoint
RefreshStatuses == {200, 400}

\* ------------------------------------------------------------ initial sheets
OrderValues == {IntOrder(1), IntOrder(2), StrOrder(EMPTY_STR), StrOrder(<<"x">>)}

RowKinds ==
    {SheetRow(p, EMPTY_STR, StrOrder(EMPTY_STR)) : p \in {TRUE_STR, FALSE_STR}}
    \cup {SheetRow(p, <<"a">>, o) : p \in {TRUE_STR, FALSE_STR}, o \in OrderValues}

Tables(n) == UNION {[1..k -> RowKinds] : k \in 0..n}

\* the in-run variables as ThreadsBot.run finds them
RunStart ==
    /\ pc = "start"
    /\ exit_code = -1
    /\ all_posts = << >>
    /\ post_groups = << >>
    /\ selected_group_key = EMPTY_STR
    /\ selected_posts = << >>
    /\ idx = 0
    /\ previous_thread_id = 0
    /\ returned_id = 0
    /\ no_unposted = FALSE
    /\ log = << >>

Init ==
    /\ sheet \in Tables(MaxRows)
    /\ RunStart
    /\ published = {}
    /\ repeated = {}
    /\ runs = 1
    /\ call = NoCall

\* --------------------------------------------------------------- operations
\* sys.exit with the status left at 0
Exit_status_zero(code) ==
    /\ pc' = "exited"
    /\ exit_code' = 0

\* sys.exit(code)
Exit(code) ==
    /\ pc' = "exited"
    /\ exit_code' = code

\* an exception that no handler of run() or main() catches
Uncaught ==
    /\ pc' = "uncaught"
    /\ exit_code' = 1

\* lines 339-341: refresh_token_if_needed() and the exit on its failure
RefreshToken ==
    /\ pc = "start"
    /\ \E days \in ExpiryDays, status \in RefreshStatuses, res \in CallOutcomes :
          IF days <= RefreshThresholdDays
          THEN IF res = "raise" THEN Uncaught
               ELSE IF status = StatusOK
                    THEN pc' = "load" /\ UNCHANGED exit_code
                    ELSE Exit(1)
          ELSE pc' = "load" /\ UNCHANGED exit_code
    /\ UNCHANGED <<sheet, all_posts, post_groups, selected_group_key,
                   selected_posts, idx, previous_thread_id, returned_id,
                   no_unposted, log, published, repeated, runs, call>>

\* lines 344-345 (and the handler of 363-365): read the rows and group them
Load ==
    /\ pc = "load"
    /\ \E res \in CallOutcomes :
          IF res = "raise"
          THEN /\ Exit(1)
               /\ UNCHANGED <<all_posts, post_groups, no_unposted>>
          ELSE LET records == get_all_records(sheet)
                   groups == get_unposted_groups(records)
               IN  /\ all_posts' = with_row_index(records)
                   /\ post_groups' = groups
                   /\ no_unposted' = (DOMAIN groups = {})
                   /\ pc' = IF needs_reset(groups) THEN "reset" ELSE "check"
                   /\ UNCHANGED exit_code
    /\ UNCHANGED <<sheet, selected_group_key, selected_posts, idx,
                   previous_thread_id, returned_id, log, published, repeated, runs, call>>

\* the sheet after update(range_name='C2:C{last}', values=[['FALSE'], ...])
reset_sheet(sh, last) ==
    [i \in 1..Len(sh) |->
        IF i + 1 >= HeaderOffset /\ i + 1 <= last
        THEN [sh[i] EXCEPT !.posted = FALSE_STR]
        ELSE sh[i]]

\* the full reset without the test  row_count > 0  of line 351
Reset_no_row_test ==
    /\ pc = "reset"
    /\ LET row_count == Len(all_posts)
       IN  \E res \in CallOutcomes :
              /\ log' = Append(log, Event("update", HeaderOffset, row_count + 1,
                                          PostedCol, FALSE_STR, 0, 0, res))
              /\ IF res = "raise"
                 THEN /\ Exit(1)
                      /\ UNCHANGED <<sheet, all_posts, post_groups, published>>
                 ELSE LET cleared == [i \in 1..Len(all_posts) |->
                                        [all_posts[i] EXCEPT !.posted = FALSE_STR]]
                      IN  /\ sheet' = reset_sheet(sheet, row_count + 1)
                          /\ all_posts' = with_row_index(cleared)
                          /\ post_groups' = get_unposted_groups(cleared)
                          /\ published' = {}
                          /\ pc' = "check"
                          /\ UNCHANGED exit_code
    /\ UNCHANGED <<selected_group_key, selected_posts, idx, previous_thread_id,
                   returned_id, no_unposted, repeated, runs, call>>

\* lines 347-361 (and the handler of 363-365): the full reset
Reset ==
    /\ pc = "reset"
    /\ LET row_count == Len(all_posts)
       IN  IF row_count > 0
           THEN \E res \in CallOutcomes :
                  /\ log' = Append(log, Event("update", HeaderOffset, row_count + 1,
                                              PostedCol, FALSE_STR, 0, 0, res))
                  /\ IF res = "raise"
                     THEN /\ Exit(1)
                          /\ UNCHANGED <<sheet, all_posts, post_groups, published>>
                     ELSE LET cleared == [i \in 1..Len(all_posts) |->
                                            [all_posts[i] EXCEPT !.posted = FALSE_STR]]
                          IN  /\ sheet' = reset_sheet(sheet, row_count + 1)
                              /\ all_posts' = with_row_index(cleared)
                              /\ post_groups' = get_unposted_groups(cleared)
                              /\ published' = {}
                              /\ pc' = "check"
                              /\ UNCHANGED exit_code
           ELSE /\ pc' = "check"
                /\ UNCHANGED <<sheet, all_posts, post_groups, published, log, exit_code>>
    /\ UNCHANGED <<selected_group_key, selected_posts, idx, previous_thread_id,
                   returned_id, no_unposted, repeated, runs, call>>

\* lines 367-371: nothing to post ends the run with status 0
CheckGroups ==
    /\ pc = "check"
    /\ IF DOMAIN post_groups = {}
       THEN Exit(0)
       ELSE pc' = "select" /\ UNCHANGED exit_code
    /\ UNCHANGED <<sheet, all_posts, post_groups, selected_group_key,
                   selected_posts, idx, previous_thread_id, returned_id,
                   no_unposted, log, published, repeated, runs, call>>

\* lines 373-374: random.choice over the group keys
Select ==
    /\ pc = "select"
    /\ \E key \in DOMAIN post_groups :
          /\ selected_group_key' = key
          /\ selected_posts' = post_groups[key]
    /\ pc' = "order"
    /\ UNCHANGED <<sheet, exit_code, all_posts, post_groups, idx,
                   previous_thread_id, returned_id, no_unposted, log,
                   published, repeated, runs, call>>

\* lines 376-382: sort a thread group; the sort is outside every try block
Order ==
    /\ pc = "order"
    /\ IF Contains(THREAD_PREFIX, selected_group_key)
       THEN IF \E k \in 1..Len(selected_posts) : sort_key_raises(selected_posts[k])
            THEN Uncaught /\ UNCHANGED selected_posts
            ELSE /\ selected_posts' = sorted_posts(selected_posts)
                 /\ pc' = "loop"
                 /\ UNCHANGED exit_code
       ELSE /\ pc' = "loop"
            /\ UNCHANGED <<selected_posts, exit_code>>
    /\ previous_thread_id' = 0
    /\ UNCHANGED <<sheet, all_posts, post_groups, selected_group_key, idx,
                   returned_id, no_unposted, log, published, repeated, runs, call>>

\* the history of a publish call on sheet row r with outcome res
RecordPublish(r, parent, res) ==
    /\ log' = Append(log, Event("publish", r, r, 0, EMPTY_STR,
                                IF res = "ok" THEN NewId ELSE 0, parent, res))
    /\ IF res = "ok"
       THEN /\ published' = published \cup {r}
            /\ repeated' = IF r \in published THEN repeated \cup {r} ELSE repeated
       ELSE UNCHANGED <<published, repeated>>

\* the first post of the group without the break of line 410
PublishRoot_no_break ==
    /\ pc = "loop"
    /\ idx < Len(selected_posts)
    /\ idx = 0
    /\ LET post == selected_posts[idx + 1]
       IN  \E res \in PublishOutcomes :
              /\ RecordPublish(post.row_index, 0, res)
              /\ returned_id' = IF res = "ok" THEN NewId ELSE 0
              /\ previous_thread_id' = IF res = "ok" THEN NewId ELSE previous_thread_id
              /\ pc' = IF res = "raise" THEN "break" ELSE "mark"
    /\ UNCHANGED <<sheet, exit_code, all_posts, post_groups, selected_group_key,
                   selected_posts, idx, no_unposted, runs, call>>

\* the published id stored in the sheet for an earlier post of the thread
stored_thread_post(post) ==
    LET ids == {sheet[i].published_id : i \in {j \in 1..Len(sheet) :
                   strip(sheet[j].thread_id) = strip(post.thread_id)}}
    IN  CHOOSE n \in ids \cup {0} : \A m \in ids : m <= n

\* the first post of the group sent as a reply to the stored post of its thread
PublishRoot_attached ==
    /\ pc = "loop"
    /\ idx < Len(selected_posts)
    /\ idx = 0
    /\ LET post == selected_posts[idx + 1]
       IN  \E res \in PublishOutcomes :
              /\ RecordPublish(post.row_index, stored_thread_post(post), res)
              /\ IF res = "ok"
                 THEN /\ returned_id' = NewId
                      /\ previous_thread_id' = NewId
                      /\ pc' = "mark"
                 ELSE /\ returned_id' = 0
                      /\ pc' = "break"
                      /\ UNCHANGED previous_thread_id
    /\ UNCHANGED <<sheet, exit_code, all_posts, post_groups, selected_group_key,
                   selected_posts, idx, no_unposted, runs, call>>

\* lines 396-410 and 432-434: the first post of the group, a root post
PublishRoot ==
    /\ pc = "loop"
    /\ idx < Len(selected_posts)
    /\ idx = 0
    /\ LET post == selected_posts[idx + 1]
       IN  \E res \in PublishOutcomes :
              /\ RecordPublish(post.row_index, 0, res)
              /\ IF res = "ok"
                 THEN /\ returned_id' = NewId
                      /\ previous_thread_id' = NewId
                      /\ pc' = "mark"
                 ELSE /\ returned_id' = 0
                      /\ pc' = "break"
                      /\ UNCHANGED previous_thread_id
    /\ UNCHANGED <<sheet, exit_code, all_posts, post_groups, selected_group_key,
                   selected_posts, idx, no_unposted, runs, call>>

\* a reply that is tried again when post_reply returns None
PublishReply_retry ==
    /\ pc = "loop"
    /\ idx < Len(selected_posts)
    /\ idx # 0
    /\ Len(log) < 3 * MaxRows
    /\ LET post == selected_posts[idx + 1]
       IN  \E res \in PublishOutcomes :
              /\ RecordPublish(post.row_index, previous_thread_id, res)
              /\ returned_id' = IF res = "ok" THEN NewId ELSE 0
              /\ pc' = IF res = "ok" THEN "mark"
                       ELSE IF res = "none" THEN "loop" ELSE "break"
    /\ UNCHANGED <<sheet, exit_code, all_posts, post_groups, selected_group_key,
                   selected_posts, idx, previous_thread_id, no_unposted, runs, call>>

\* lines 412-430 and 432-434: a later post of the group, a reply
PublishReply ==
    /\ pc = "loop"
    /\ idx < Len(selected_posts)
    /\ idx # 0
    /\ LET post == selected_posts[idx + 1]
       IN  IF previous_thread_id = 0
           THEN /\ pc' = "break"
                /\ UNCHANGED <<returned_id, log, published, repeated>>
           ELSE \E res \in PublishOutcomes :
                  /\ RecordPublish(post.row_index, previous_thread_id, res)
                  /\ IF res = "ok"
                     THEN /\ returned_id' = NewId
                          /\ pc' = "mark"
                     ELSE /\ returned_id' = 0
                          /\ pc' = "break"
    /\ UNCHANGED <<sheet, exit_code, all_posts, post_groups, selected_group_key,
                   selected_posts, idx, previous_thread_id, no_unposted, runs, call>>

\* update_cell with the header row forgotten
update_cell_no_header(sh, row_index, col, value) ==
    [i \in 1..Len(sh) |->
        IF i = row_index
        THEN IF col = PostedCol THEN [sh[i] EXCEPT !.posted = value]
             ELSE IF col = PublishedIdCol THEN [sh[i] EXCEPT !.published_id = value]
             ELSE sh[i]
        ELSE sh[i]]

\* the sheet after update_cell(row_index, col, value)
update_cell(sh, row_index, col, value) ==
    [i \in 1..Len(sh) |->
        IF i + 1 = row_index
        THEN IF col = PostedCol THEN [sh[i] EXCEPT !.posted = value]
             ELSE IF col = PublishedIdCol THEN [sh[i] EXCEPT !.published_id = value]
             ELSE sh[i]
        ELSE sh[i]]

\* lines 404 and 424: update_cell(row_index, 3, 'TRUE')
MarkPosted ==
    /\ pc = "mark"
    /\ LET row_index == selected_posts[idx + 1].row_index
       IN  \E res \in CallOutcomes :
              /\ log' = Append(log, Event("update_cell", row_index, row_index,
                                          PostedCol, TRUE_STR, 0, 0, res))
              /\ IF res = "ok"
                 THEN /\ sheet' = update_cell(sheet, row_index, PostedCol, TRUE_STR)
                      /\ pc' = "write_id"
                 ELSE /\ pc' = "break"
                      /\ UNCHANGED sheet
    /\ UNCHANGED <<exit_code, all_posts, post_groups, selected_group_key,
                   selected_posts, idx, previous_thread_id, returned_id,
                   no_unposted, published, repeated, runs, call>>

\* the id write that stores previous_thread_id in place of the returned id
WritePublishedId_previous ==
    /\ pc = "write_id"
    /\ LET row_index == selected_posts[idx + 1].row_index
       IN  \E res \in CallOutcomes :
              /\ log' = Append(log, Event("update_cell", row_index, row_index,
                                          PublishedIdCol, EMPTY_STR, previous_thread_id, 0, res))
              /\ IF res = "ok"
                 THEN /\ sheet' = update_cell(sheet, row_index, PublishedIdCol, previous_thread_id)
                      /\ idx' = idx + 1
                      /\ pc' = "loop"
                 ELSE /\ pc' = "break"
                      /\ UNCHANGED <<sheet, idx>>
    /\ UNCHANGED <<exit_code, all_posts, post_groups, selected_group_key,
                   selected_posts, previous_thread_id, returned_id,
                   no_unposted, published, repeated, runs, call>>

\* lines 405-407 and 425-427: update_cell(row_index, 6, id), then the next post
WritePublishedId ==
    /\ pc = "write_id"
    /\ LET row_index == selected_posts[idx + 1].row_index
       IN  \E res \in CallOutcomes :
              /\ log' = Append(log, Event("update_cell", row_index, row_index,
                                          PublishedIdCol, EMPTY_STR, returned_id, 0, res))
              /\ IF res = "ok"
                 THEN /\ sheet' = update_cell(sheet, row_index, PublishedIdCol, returned_id)
                      /\ idx' = idx + 1
                      /\ pc' = "loop"
                 ELSE /\ pc' = "break"
                      /\ UNCHANGED <<sheet, idx>>
    /\ UNCHANGED <<exit_code, all_posts, post_groups, selected_group_key,
                   selected_posts, previous_thread_id, returned_id,
                   no_unposted, published, repeated, runs, call>>

\* lines 436-437: the loop is over (exhausted or left by break)
Finish ==
    /\ \/ pc = "break"
       \/ pc = "loop" /\ idx >= Len(selected_posts)
    /\ pc' = "done"
    /\ exit_code' = 0
    /\ UNCHANGED <<sheet, all_posts, post_groups, selected_group_key,
                   selected_posts, idx, previous_thread_id, returned_id,
                   no_unposted, log, published, repeated, runs, call>>

Terminated == pc \in {"done", "exited", "uncaught"}

\* lines 440-442: the scheduler starts the next run, main() builds a new bot
StartRun ==
    /\ Terminated
    /\ runs < MaxRuns
    /\ runs' = runs + 1
    /\ pc' = "start"
    /\ exit_code' = -1
    /\ all_posts' = << >>
    /\ post_groups' = << >>
    /\ selected_group_key' = EMPTY_STR
    /\ selected_posts' = << >>
    /\ idx' = 0
    /\ previous_thread_id' = 0
    /\ returned_id' = 0
    /\ no_unposted' = FALSE
    /\ log' = << >>
    /\ UNCHANGED <<sheet, published, repeated, call>>

Next ==
    \/ RefreshToken
    \/ Load
    \/ Reset
    \/ CheckGroups
    \/ Select
    \/ Order
    \/ PublishRoot
    \/ PublishReply
    \/ MarkPosted
    \/ WritePublishedId
    \/ Finish
    \/ StartRun

Spec == Init /\ [][Next]_vars

\* ------------------------------------------------- runs without end (cycles)
\* the sheets the cycles start from
CycleTables ==
    {<<SheetRow(FALSE_STR, EMPTY_STR, StrOrder(EMPTY_STR))>>,
     <<SheetRow(TRUE_STR, EMPTY_STR, StrOrder(EMPTY_STR)),
       SheetRow(FALSE_STR, EMPTY_STR, StrOrder(EMPTY_STR))>>,
     <<SheetRow(FALSE_STR, <<"a">>, IntOrder(2)),
       SheetRow(FALSE_STR, <<"a">>, IntOrder(1))>>,
     <<SheetRow(TRUE_STR, <<"a">>, IntOrder(1)),
       SheetRow(TRUE_STR, EMPTY_STR, StrOrder(EMPTY_STR))>>,
     <<SheetRow(FALSE_STR, EMPTY_STR, StrOrder(EMPTY_STR)),
       SheetRow(FALSE_STR, <<"a">>, StrOrder(<<"x">>))>>}

InitCycle ==
    /\ sheet \in CycleTables
    /\ RunStart
    /\ published = {}
    /\ repeated = {}
    /\ runs = 1
    /\ call = NoCall

\* lines 440-442: the scheduler starts the next run, without a last run
StartRunAgain ==
    /\ Terminated
    /\ pc' = "start"
    /\ exit_code' = -1
    /\ all_posts' = << >>
    /\ post_groups' = << >>
    /\ selected_group_key' = EMPTY_STR
    /\ selected_posts' = << >>
    /\ idx' = 0
    /\ previous_thread_id' = 0
    /\ returned_id' = 0
    /\ no_unposted' = FALSE
    /\ log' = << >>
    /\ UNCHANGED <<sheet, published, repeated, runs, call>>

NextCycle ==
    \/ RefreshToken
    \/ Load
    \/ Reset
    \/ CheckGroups
    \/ Select
    \/ Order
    \/ PublishRoot
    \/ PublishReply
    \/ MarkPosted
    \/ WritePublishedId
    \/ Finish
    \/ StartRunAgain

\* the steps in which the collaborator call succeeds
RefreshSucceeds == RefreshToken /\ pc' = "load"
LoadSucceeds == Load /\ pc' \in {"reset", "check"}
ResetSucceeds == Reset /\ pc' = "check"
PublishSucceeds == (PublishRoot \/ PublishReply) /\ pc' = "mark"
MarkSucceeds == MarkPosted /\ pc' = "write_id"
WriteIdSucceeds == WritePublishedId /\ pc' = "loop"

\* random.choice picks the group with this key
SelectKey(key) == Select /\ selected_group_key' = key

\* the group keys that occur on the sheets of CycleTables
CycleKeys ==
    {THREAD_PREFIX \o <<"a">>, SINGLE_PREFIX \o <<"0">>, SINGLE_PREFIX \o <<"1">>}

\* the run always takes its next step, every call succeeds again and again,
\* and every group that stays available is selected again and again
CycleFairness ==
    /\ WF_vars(CheckGroups)
    /\ WF_vars(Order)
    /\ WF_vars(Finish)
    /\ WF_vars(StartRunAgain)
    /\ SF_vars(RefreshSucceeds)
    /\ SF_vars(LoadSucceeds)
    /\ SF_vars(ResetSucceeds)
    /\ SF_vars(PublishSucceeds)
    /\ SF_vars(MarkSucceeds)
    /\ SF_vars(WriteIdSucceeds)
    /\ \A key \in CycleKeys : SF_vars(SelectKey(key))

SpecCycle == InitCycle /\ [][NextCycle]_vars /\ CycleFairness

\* ------------------------------------------- get_unposted_groups on its own
\* posted cells: the sentinel in several casings and values that are not it
PostedValues ==
    {TRUE_STR, <<"t", "r", "u", "e">>, <<"T", "r", "u", "e">>, FALSE_STR,
     <<"T", "R", "U", "E", " ">>}

\* thread_id cells: empty, blank, an id with and without padding, another id
ThreadIdValues ==
    {EMPTY_STR, <<" ">>, <<"a">>, <<" ", "a", " ">>, <<"b">>}

RecordKinds ==
    {[posted |-> p, thread_id |-> t, thread_order |-> StrOrder(EMPTY_STR),
      row_index |-> 0] : p \in PostedValues, t \in ThreadIdValues}

InitGroup ==
    /\ all_posts \in UNION {[1..k -> RecordKinds] : k \in 0..MaxRecords}
    /\ pc = "records"
    /\ sheet = << >>
    /\ exit_code = -1
    /\ post_groups = << >>
    /\ selected_group_key = EMPTY_STR
    /\ selected_posts = << >>
    /\ idx = 0
    /\ previous_thread_id = 0
    /\ returned_id = 0
    /\ no_unposted = FALSE
    /\ log = << >>
    /\ published = {}
    /\ repeated = {}
    /\ runs = 1
    /\ call = NoCall

\* lines 169-189: a call of get_unposted_groups(records)
Group ==
    /\ pc = "records"
    /\ post_groups' = get_unposted_groups(all_posts)
    /\ all_posts' = with_row_index(all_posts)
    /\ pc' = "grouped"
    /\ UNCHANGED <<sheet, exit_code, selected_group_key, selected_posts, idx,
                   previous_thread_id, returned_id, no_unposted, log, published,
                   repeated, runs, call>>

NextGroup == Group

SpecGroup == InitGroup /\ [][NextGroup]_vars

\* ------------------------------------ post_to_threads / post_reply on their own
HTTP_PREFIX == <<"h", "t", "t", "p">>
SECURE_URL == <<"c", "d", "n">>

\* str.lower() on one character (the letters that occur in the model)
LowerChar(c) ==
    CASE c = "M" -> "m"
      [] c = "P" -> "p"
      [] c = "H" -> "h"
      [] c = "T" -> "t"
      [] c = "A" -> "a"
      [] OTHER -> c

\* s.lower()
lower(s) == [i \in 1..Len(s) |-> LowerChar(s[i])]

\* s.startswith(prefix)
startswith(s, prefix) ==
    Len(s) >= Len(prefix) /\ SubSeq(s, 1, Len(prefix)) = prefix

\* s.rfind(c) + 1: the last position of c in s, 0 when there is none
LastIndex(s, c) ==
    IF \E k \in 1..Len(s) : s[k] = c
    THEN CHOOSE k \in 1..Len(s) : s[k] = c /\ \A j \in (k + 1)..Len(s) : s[j] # c
    ELSE 0

\* os.path.splitext(p)[1]: the extension from the last dot of the last
\* path component, empty when that component has no dot or only leading dots
splitext_ext(p) ==
    LET sepIndex == LastIndex(p, "/")
        dotIndex == LastIndex(p, ".")
    IN  IF dotIndex > sepIndex
           /\ \E k \in (sepIndex + 1)..(dotIndex - 1) : p[k] # "."
        THEN SubSeq(p, dotIndex, Len(p))
        ELSE EMPTY_STR

\* line 128: video_extensions
VideoExtensions ==
    {<<".", "m", "p", "4">>, <<".", "m", "o", "v">>, <<".", "a", "v", "i">>,
     <<".", "m", "k", "v">>, <<".", "f", "l", "v">>, <<".", "w", "m", "v">>}

\* lines 126-130: is_video_file(file_path)
is_video_file(file_path) == splitext_ext(lower(file_path)) \in VideoExtensions

\* a media_path argument: None or a str
NoneArg == [none |-> TRUE, str |-> EMPTY_STR]
StrArg(x) == [none |-> FALSE, str |-> x]

\* lines 156-167: has_valid_media(media_path)
has_valid_media(media_path) ==
    /\ ~media_path.none
    /\ media_path.str # EMPTY_STR
    /\ Len(strip(media_path.str)) # 0

\* the media_path arguments of the calls that are looked at
MediaPaths ==
    {NoneArg, StrArg(EMPTY_STR), StrArg(<<" ">>),
     StrArg(<<"h", "t", "t", "p", ":", "/", "/", "a", ".", "m", "p", "4">>),
     StrArg(<<" ", "h", "t", "t", "p", "s", ":", "/", "/", "a", " ">>),
     StrArg(<<"a", ".", "p", "n", "g">>),
     StrArg(<<" ", "b", "/", "a", ".", "M", "P", "4">>),
     StrArg(<<"h", "t", "t", "p", "d", "/", "a">>),
     StrArg(<<".", "m", "p", "4">>)}

\* the reply_to_id arguments of post_reply
ParentIds == {1, 2}
\* the ids the platform returns in response.json()['id']
ReturnedIds == {3, 4}
\* status codes of the two requests.post calls; NoResponse: the call raised
NoResponse == 0
HttpOutcomes == {200, 201, 400, NoResponse}
\* upload_media_to_cloudinary: file missing, uploaded, or the upload raised
UploadOutcomes == {"missing", "uploaded", "failed"}

\* one step of a publish call: op is "upload", "create" or "threads_publish"
Step(op, status, media_type, reply_to_id, outcome) ==
    [op |-> op, status |-> status, media_type |-> media_type,
     reply_to_id |-> reply_to_id, outcome |-> outcome]

\* the frame at the entry of post_to_threads (reply_to_id 0) or post_reply
NewCall(fn, media_path, reply_to_id) ==
    [fn |-> fn, media_path |-> media_path, reply_to_id |-> reply_to_id,
     media_url |-> EMPTY_STR, media_type |-> "", trace |-> << >>, result |-> 0]

InitPublish ==
    /\ call \in {NewCall("post_to_threads", m, 0) : m \in MediaPaths}
                \cup {NewCall("post_reply", m, r) : m \in MediaPaths, r \in ParentIds}
    /\ pc = "media"
    /\ sheet = << >>
    /\ exit_code = -1
    /\ all_posts = << >>
    /\ post_groups = << >>
    /\ selected_group_key = EMPTY_STR
    /\ selected_posts = << >>
    /\ idx = 0
    /\ previous_thread_id = 0
    /\ returned_id = 0
    /\ no_unposted = FALSE
    /\ log = << >>
    /\ published = {}
    /\ repeated = {}
    /\ runs = 1

RunUnchanged ==
    UNCHANGED <<sheet, exit_code, all_posts, post_groups, selected_group_key,
                selected_posts, idx, previous_thread_id, returned_id,
                no_unposted, log, published, repeated, runs>>

\* lines 197-212 and 272-283: pass a public URL through, upload a local file
ResolveMedia ==
    /\ pc = "media"
    /\ IF has_valid_media(call.media_path)
       THEN LET media_path == strip(call.media_path.str)
            IN  IF startswith(media_path, HTTP_PREFIX)
                THEN call' = [call EXCEPT
                                !.media_url = media_path,
                                !.media_type = IF is_video_file(media_path)
                                               THEN "VIDEO" ELSE "IMAGE"]
                ELSE \E outcome \in UploadOutcomes :
                        call' = [call EXCEPT
                                   !.trace = Append(@, Step("upload", NoResponse, "",
                                                            call.reply_to_id, outcome)),
                                   !.media_url = IF outcome = "uploaded"
                                                 THEN SECURE_URL ELSE EMPTY_STR,
                                   !.media_type = IF outcome # "uploaded" THEN ""
                                                  ELSE IF is_video_file(media_path)
                                                       THEN "VIDEO" ELSE "IMAGE"]
       ELSE UNCHANGED call
    /\ pc' = "create"
    /\ RunUnchanged

\* the test of the create response with only error statuses rejected
create_failed_errors_only(status) == status >= 400

\* lines 235 and 306: if response.status_code != 200
create_failed(status) == status # StatusOK

\* lines 214-239 and 287-310: create the container
CreateContainer ==
    /\ pc = "create"
    /\ LET media_type == IF call.media_url # EMPTY_STR /\ call.media_type # ""
                         THEN call.media_type ELSE "TEXT"
       IN  \E status \in HttpOutcomes :
              /\ call' = [call EXCEPT
                            !.trace = Append(@, Step("create", status, media_type,
                                                     call.reply_to_id, ""))]
              /\ pc' = IF status = NoResponse THEN "raised"
                       ELSE IF create_failed(status) THEN "returned"
                       ELSE "publish"
    /\ RunUnchanged

\* lines 250-264 and 321-335: publish the container
PublishContainer ==
    /\ pc = "publish"
    /\ \E status \in HttpOutcomes, id \in ReturnedIds :
          /\ call' = [call EXCEPT
                        !.trace = Append(@, Step("threads_publish", status, "",
                                                 call.reply_to_id, "")),
                        !.result = IF status = StatusOK THEN id ELSE 0]
          /\ pc' = IF status = NoResponse THEN "raised" ELSE "returned"
    /\ RunUnchanged

NextPublish ==
    \/ ResolveMedia
    \/ CreateContainer
    \/ PublishContainer

SpecPublish == InitPublish /\ [][NextPublish]_vars

TypeOK ==
    /\ pc \in {"media", "create", "publish", "returned", "raised",
               "records", "grouped", "start", "load", "reset", "check", "select", "order", "loop",
               "mark", "write_id", "break", "done", "exited", "uncaught"}
    /\ exit_code \in {-1, 0, 1}
    /\ idx \in 0..Len(selected_posts)
    /\ runs \in 1..MaxRuns

\* ------------------------------------------------------------ the history
\* the publish calls of this run, in order
PublishEvents == SelectSeq(log, LAMBDA e : e.op = "publish")

\* the successful update_cell(row, 3, 'TRUE') calls of this run, in order
MarkEvents ==
    SelectSeq(log, LAMBDA e : e.op = "update_cell" /\ e.col = PostedCol /\ e.res = "ok")

\* the update_cell calls of this run, whatever their outcome
CellEvents == SelectSeq(log, LAMBDA e : e.op = "update_cell")

\* the bulk update calls of this run, whatever their outcome
ResetEvents == SelectSeq(log, LAMBDA e : e.op = "update")

\* a group has been selected in this run
GroupSelected == selected_group_key # EMPTY_STR

\* the run is past the ordering step of lines 376-380
PastOrder == pc \in {"loop", "mark", "write_id", "break", "done", "uncaught"} /\ GroupSelected

\* ------------------------------------------------------------------ claims
\* C1: between two consecutive full resets (and before the first one) no row
\* is successfully published more than once, whatever publish or table-write
\* failures occur in between.
C1_NoRepeatWithinCycle == repeated = {}

\* C2: every reply is published with the post id of the immediately
\* preceding row of the ordered group as its parent (the third row replies
\* to the second row's id, not to the root's).
C2_ReplyChaining ==
    \A k \in 2..Len(PublishEvents) :
        PublishEvents[k].parent = PublishEvents[k - 1].id

\* the sentinel "TRUE" in every casing
TrueCasings ==
    {<<a, b, c, d>> : a \in {"T", "t"}, b \in {"R", "r"},
                      c \in {"U", "u"}, d \in {"E", "e"}}

\* the places (key, position) of the groups that hold sheet row r
Places(r) ==
    {kj \in UNION {{<<key, j>> : j \in 1..Len(post_groups[key])} : key \in DOMAIN post_groups} :
        post_groups[kj[1]][kj[2]].row_index = r}

\* sheet row of the record at position i of all_posts
RowOf(i) == (i - 1) + HeaderOffset

\* C3: get_unposted_groups partitions exactly the unposted rows: a row whose
\* posted value is not "TRUE" in any casing is at exactly one place of
\* exactly one group, and a row whose posted value is "TRUE" in some casing
\* is in no group; the groups hold nothing but rows of the table.
C3_GroupsPartitionUnposted ==
    pc = "grouped" =>
        /\ \A i \in 1..Len(all_posts) :
              Cardinality(Places(RowOf(i))) =
                  IF all_posts[i].posted \in TrueCasings THEN 0 ELSE 1
        /\ \A key \in DOMAIN post_groups :
              /\ post_groups[key] # << >>
              /\ \A j \in 1..Len(post_groups[key]) :
                    \E i \in 1..Len(all_posts) :
                        /\ post_groups[key][j].row_index = RowOf(i)
                        /\ post_groups[key][j] = all_posts[i]

C3_Witness ==
    /\ pc = "grouped"
    /\ Len(all_posts) = 3
    /\ all_posts[1].posted = <<"t", "r", "u", "e">>
    /\ all_posts[2].posted = FALSE_STR
    /\ all_posts[3].posted = TRUE_STR
    /\ DOMAIN post_groups # {}

\* the thread_id with the whitespace at both ends removed, stated on its own
Trimmed(s) ==
    CHOOSE t \in {SubSeq(s, a, b) : a \in 1..(Len(s) + 1), b \in 0..Len(s)} :
        /\ \E a \in 1..(Len(s) + 1), b \in 0..Len(s) :
              /\ t = SubSeq(s, a, b)
              /\ \A k \in 1..(a - 1) : s[k] \in Whitespace
              /\ \A k \in (b + 1)..Len(s) : s[k] \in Whitespace
        /\ t # << >> => (t[1] \notin Whitespace /\ t[Len(t)] \notin Whitespace)

\* the records of all_posts that are not posted
UnpostedIndexes == {i \in 1..Len(all_posts) : all_posts[i].posted \notin TrueCasings}

\* the keys of the groups that hold sheet row r
KeysOf(r) == {kj[1] : kj \in Places(r)}

\* C4: two distinct unposted rows are in the same group iff they have the
\* same non-empty thread_id after trimming; an unposted row with an empty
\* thread_id is alone in its group, and its key is the key of no other row.
C4_SameGroupIffSameThread ==
    pc = "grouped" =>
        /\ \A i, j \in UnpostedIndexes :
              i # j =>
                 ((KeysOf(RowOf(i)) \cap KeysOf(RowOf(j)) # {})
                    <=> (/\ Trimmed(all_posts[i].thread_id) # EMPTY_STR
                         /\ Trimmed(all_posts[i].thread_id) = Trimmed(all_posts[j].thread_id)))
        /\ \A i \in UnpostedIndexes :
              Trimmed(all_posts[i].thread_id) = EMPTY_STR =>
                  \A key \in KeysOf(RowOf(i)) :
                      /\ Len(post_groups[key]) = 1
                      /\ \A j \in UnpostedIndexes : j # i => key \notin KeysOf(RowOf(j))

C4_Witness ==
    /\ pc = "grouped"
    /\ Len(all_posts) = 3
    /\ UnpostedIndexes = {1, 2, 3}
    /\ all_posts[1].thread_id = <<" ", "a", " ">>
    /\ all_posts[2].thread_id = <<" ">>
    /\ all_posts[3].thread_id = <<"a">>
    /\ Cardinality(DOMAIN post_groups) = 2

\* thread_order as the sort is to read it: missing or non-numeric is 0
OrderOrZero(post) ==
    IF post.thread_order.kind = "int" THEN post.thread_order.val ELSE 0

\* C5: a selected thread group is published in non-decreasing thread_order
\* (missing or non-numeric read as 0, ties in table order), and for every
\* such group the run proceeds to publishing in that order.
C5_ThreadOrder ==
    (PastOrder /\ Contains(THREAD_PREFIX, selected_group_key)) =>
        /\ pc # "uncaught"
        /\ \A k, l \in 1..Len(selected_posts) :
              k < l =>
                 \/ OrderOrZero(selected_posts[k]) < OrderOrZero(selected_posts[l])
                 \/ /\ OrderOrZero(selected_posts[k]) = OrderOrZero(selected_posts[l])
                    /\ selected_posts[k].row_index < selected_posts[l].row_index
        /\ {selected_posts[k] : k \in 1..Len(selected_posts)}
              = {post_groups[selected_group_key][k] :
                    k \in 1..Len(post_groups[selected_group_key])}
        /\ \A k \in 1..Len(PublishEvents) :
              PublishEvents[k].row = selected_posts[k].row_index

\* C6: if the publish of the first row of the group fails, no row of the
\* group is marked posted, no published id is written, and no later row of
\* the group is attempted.
C6_RootFailureLeavesGroupUnmarked ==
    (Len(PublishEvents) >= 1 /\ PublishEvents[1].res # "ok") =>
        /\ Len(PublishEvents) = 1
        /\ CellEvents = << >>
        /\ \A k \in 1..Len(selected_posts) :
              sheet[selected_posts[k].row_index - 1].posted \notin TrueCasings

C6_Witness ==
    /\ pc = "done"
    /\ Len(selected_posts) = 3
    /\ Len(PublishEvents) = 1
    /\ PublishEvents[1].res = "none"

\* position of the first failed publish, behind the group if none failed
FirstFailure ==
    IF \E k \in 1..Len(PublishEvents) : PublishEvents[k].res # "ok"
    THEN CHOOSE k \in 1..Len(PublishEvents) :
            /\ PublishEvents[k].res # "ok"
            /\ \A j \in 1..(k - 1) : PublishEvents[j].res = "ok"
    ELSE Len(selected_posts) + 1

\* C7: when the publish at position k >= 1 fails, the rows from k on are not
\* marked and the rows behind k are not attempted, while the rows before k
\* stay marked; at the end of every run the rows marked in the run are
\* exactly the ordered prefix of the group before the first failed publish.
C7_MarkedPrefix ==
    pc = "done" =>
        /\ Len(PublishEvents) <= FirstFailure
        /\ [k \in 1..Len(MarkEvents) |-> MarkEvents[k].row]
              = [k \in 1..(FirstFailure - 1) |-> selected_posts[k].row_index]
        /\ \A k \in 1..Len(selected_posts) :
              sheet[selected_posts[k].row_index - 1].posted = TRUE_STR <=> k < FirstFailure

\* C8: when the load finds no unposted group on a table with rows, the bulk
\* write of "FALSE" over the posted cells of exactly the data rows is issued
\* once, before any publish; after it every row is in some group, and one
\* group is selected and posted in the same run.
C8_ResetThenPost ==
    /\ Len(ResetEvents) <= 1
    /\ (no_unposted /\ Len(all_posts) > 0 /\ pc \notin {"start", "load", "reset"}) =>
          /\ Len(ResetEvents) = 1
          /\ ResetEvents[1].row = HeaderOffset
          /\ ResetEvents[1].last = Len(sheet) + 1
          /\ ResetEvents[1].col = PostedCol
          /\ ResetEvents[1].val = FALSE_STR
    /\ \A k \in 1..Len(log) :
          log[k].op = "update" => \A j \in 1..(k - 1) : log[j].op # "publish"
    /\ (ResetEvents # << >> /\ ResetEvents[1].res = "ok") =>
          /\ \A i \in 1..Len(sheet) : Places(RowOf(i)) # {}
          /\ Terminated => (GroupSelected /\ PublishEvents # << >>)

\* C9: a posted flag goes from TRUE to another value only in the full reset,
\* the full reset runs only when every row read was posted, and a run that
\* loaded an unposted row writes "FALSE" to no cell.
C9_ResetOnlyWhenAllPosted ==
    /\ [][\A i \in 1..Len(sheet) :
             (sheet[i].posted \in TrueCasings /\ sheet'[i].posted \notin TrueCasings) =>
                 /\ pc = "reset"
                 /\ \A j \in 1..Len(sheet) : sheet[j].posted \in TrueCasings
                 /\ \A j \in 1..Len(sheet) : sheet'[j].posted = FALSE_STR]_vars
    /\ [](~no_unposted => \A k \in 1..Len(log) : log[k].val # FALSE_STR)

C9_Witness ==
    /\ pc = "done"
    /\ Len(sheet) = 3
    /\ ResetEvents # << >>
    /\ ResetEvents[1].res = "ok"
    /\ PublishEvents # << >>

\* C10: once a group has been selected the run ends normally, with the
\* completion message and exit status 0, and never with an uncaught error.
C10_RunEndsNormally ==
    (Terminated /\ GroupSelected) => (pc = "done" /\ exit_code = 0)

\* C11: when the token refresh fails, or the read of the rows or the bulk
\* write of the reset raises, the run ends with exit status 1 and has made
\* no publish call and no posted / published id write.
C11_FatalBeforeSelection ==
    [][(\/ pc = "start" /\ pc' \in {"exited", "uncaught"}
        \/ pc = "load" /\ pc' = "exited"
        \/ pc = "reset" /\ pc' = "exited")
          => /\ exit_code' = 1
             /\ \A k \in 1..Len(log') : log'[k].op \notin {"publish", "update_cell"}]_vars

C11_Witness ==
    /\ pc = "exited"
    /\ exit_code = 1
    /\ Len(sheet) = 3
    /\ ResetEvents # << >>
    /\ ResetEvents[1].res = "raise"

\* C12: on a table without rows the run ends with status 0 ("nothing to
\* do") and makes no reset write, no publish call and no cell write.
C12_EmptyTableNothingToDo ==
    /\ [](Len(sheet) = 0 =>
            /\ log = << >>
            /\ pc \in {"start", "load", "reset", "check", "exited", "uncaught"})
    /\ [][(Len(sheet) = 0 /\ pc \in {"reset", "check"}) =>
            \/ pc = "reset" /\ pc' = "check"
            \/ pc' = "exited" /\ exit_code' = 0]_vars

C12_Witness ==
    /\ Len(sheet) = 0
    /\ pc = "exited"
    /\ exit_code = 0
    /\ no_unposted

\* the sheet rows of the selected group
SelectedRows == {selected_posts[k].row_index : k \in 1..Len(selected_posts)}

\* C13: within one run every row gets at most one publish attempt, no
\* attempt follows a failed one, and every attempt is for a row of the
\* selected group that the run loaded as unposted.
C13_NoInRunRetry ==
    /\ \A k, l \in 1..Len(PublishEvents) :
          k # l => PublishEvents[k].row # PublishEvents[l].row
    /\ \A k \in 1..(Len(PublishEvents) - 1) : PublishEvents[k].res = "ok"
    /\ \A k \in 1..Len(PublishEvents) :
          /\ PublishEvents[k].row \in SelectedRows
          /\ all_posts[PublishEvents[k].row - 1].posted \notin TrueCasings

C13_Witness ==
    /\ runs = 2
    /\ pc = "done"
    /\ Len(selected_posts) = 3
    /\ Len(PublishEvents) = 2
    /\ PublishEvents[2].res = "none"

\* C14: a run writes only to the rows of its one selected group (the full
\* reset apart), and a selected group of one row that is published and
\* written marks exactly that row: with three unposted standalone rows,
\* exactly one row is TRUE after the run.
C14_OnlySelectedGroupWritten ==
    /\ [][\A i \in 1..Len(sheet) :
             sheet'[i] # sheet[i] => (pc = "reset" \/ RowOf(i) \in SelectedRows)]_vars
    /\ [](\A k \in 1..Len(CellEvents) : CellEvents[k].row \in SelectedRows)
    /\ []((/\ pc = "done"
           /\ Len(selected_posts) = 1
           /\ Len(CellEvents) = 2
           /\ CellEvents[2].res = "ok")
            => /\ sheet[selected_posts[1].row_index - 1].posted = TRUE_STR
               /\ Len(MarkEvents) = 1
               /\ MarkEvents[1].row = selected_posts[1].row_index
               /\ Cardinality(DOMAIN post_groups) = Len(sheet) =>
                     Cardinality({i \in 1..Len(sheet) : sheet[i].posted = TRUE_STR}) = 1)

C14_Witness ==
    /\ pc = "done"
    /\ Len(sheet) = 3
    /\ \A i \in 1..3 : sheet[i].thread_id = EMPTY_STR
    /\ ~no_unposted
    /\ Cardinality(DOMAIN post_groups) = 3
    /\ Cardinality({i \in 1..3 : sheet[i].posted = TRUE_STR}) = 1
    /\ sheet[selected_posts[1].row_index - 1].published_id # 0

\* C19: the posted=TRUE write of a row directly follows that row's publish
\* that returned an id; the published id write directly follows a successful
\* posted=TRUE write of the same row and carries the id that publish
\* returned; the next row is published only after both writes succeeded.
C19_CompletionWriteOrder ==
    \A k \in 1..Len(log) :
        /\ (log[k].op = "update_cell" /\ log[k].col = PostedCol) =>
              /\ k > 1
              /\ log[k].val = TRUE_STR
              /\ log[k - 1].op = "publish"
              /\ log[k - 1].res = "ok"
              /\ log[k - 1].row = log[k].row
        /\ (log[k].op = "update_cell" /\ log[k].col = PublishedIdCol) =>
              /\ k > 2
              /\ log[k - 1].op = "update_cell"
              /\ log[k - 1].col = PostedCol
              /\ log[k - 1].res = "ok"
              /\ log[k - 1].row = log[k].row
              /\ log[k - 2].op = "publish"
              /\ log[k - 2].row = log[k].row
              /\ log[k - 2].id = log[k].id
              /\ log[k].id # 0
        /\ (log[k].op = "update_cell" /\ log[k].res = "ok" /\ log[k].col = PublishedIdCol) =>
              sheet[log[k].row - 1].published_id = log[k].id
        /\ (log[k].op = "publish" /\ \E j \in 1..(k - 1) : log[j].op = "publish") =>
              /\ log[k - 1].op = "update_cell"
              /\ log[k - 1].col = PublishedIdCol
              /\ log[k - 1].res = "ok"
        /\ log[k].op = "update_cell" => log[k].col \in {PostedCol, PublishedIdCol}

C19_Witness ==
    /\ pc = "done"
    /\ Len(selected_posts) = 3
    /\ Len(log) = 9
    /\ log[9].res = "ok"

\* the ids that runs before this one left in the sheet
EarlierIds ==
    {sheet[i].published_id : i \in {j \in 1..Len(sheet) :
        \A k \in 1..Len(log) :
            ~(log[k].op = "update_cell" /\ log[k].col = PublishedIdCol
              /\ log[k].res = "ok" /\ log[k].row = RowOf(j))}} \ {0}

\* C18: in every run the first row of the ordered group is published as a
\* root post without parent, also when rows of the same thread were
\* published and marked by an earlier run, and every reply of the run is
\* attached to a post of this run, never to a post of an earlier run.
C18_NewChainEachRun ==
    /\ PublishEvents # << >> =>
          /\ PublishEvents[1].parent = 0
          /\ PublishEvents[1].row = selected_posts[1].row_index
    /\ \A k \in 2..Len(PublishEvents) :
          /\ \E j \in 1..(k - 1) :
                /\ PublishEvents[j].res = "ok"
                /\ PublishEvents[j].id = PublishEvents[k].parent
          /\ PublishEvents[k].parent \notin EarlierIds

C18_Witness ==
    /\ runs = 2
    /\ ~no_unposted
    /\ Len(PublishEvents) = 2
    /\ PublishEvents[2].res = "ok"
    /\ \E i \in 1..Len(sheet) :
          /\ sheet[i].posted = TRUE_STR
          /\ sheet[i].published_id \in EarlierIds
          /\ RowOf(i) \notin SelectedRows
          /\ strip(sheet[i].thread_id) = strip(selected_posts[1].thread_id)
          /\ strip(sheet[i].thread_id) # EMPTY_STR

\* every row of a sheet with rows is posted
AllPosted ==
    /\ Len(sheet) > 0
    /\ \A i \in 1..Len(sheet) : sheet[i].posted \in TrueCasings

\* C15: when every call succeeds again and again and every available group
\* is selected again and again, a sheet with rows reaches the state in
\* which every row is posted, and the all-posted state is left again by
\* the full reset of a following run.
C15_CycleProgress ==
    /\ (Len(sheet) > 0) ~> AllPosted
    /\ AllPosted ~> ~AllPosted


\* ---------------------------------------------------------------- C16, C17
StepsOf(op) == SelectSeq(call.trace, LAMBDA e : e.op = op)
CreateSteps == StepsOf("create")
PublishSteps == StepsOf("threads_publish")
UploadSteps == StepsOf("upload")

\* C16: post_to_threads and post_reply return a post id if and only if the
\* create call and the publish call both answered 200; after a create answer
\* other than 200 no publish call is issued; an answer other than 200 at
\* either step ends the attempt without an id.
C16_IdIffBothOk ==
    /\ Len(CreateSteps) <= 1
    /\ Len(PublishSteps) <= 1
    /\ call.result # 0 <=>
          /\ pc = "returned"
          /\ CreateSteps # << >> /\ CreateSteps[1].status = 200
          /\ PublishSteps # << >> /\ PublishSteps[1].status = 200
    /\ (CreateSteps # << >> /\ CreateSteps[1].status # 200) =>
          /\ PublishSteps = << >>
          /\ pc \in {"returned", "raised"}
          /\ call.result = 0
    /\ (PublishSteps # << >> /\ PublishSteps[1].status # 200) =>
          /\ pc \in {"returned", "raised"}
          /\ call.result = 0
    /\ pc = "returned" => CreateSteps # << >>

C16_Witness ==
    /\ pc = "returned"
    /\ call.fn = "post_reply"
    /\ call.result # 0
    /\ CreateSteps[1].status = 200
    /\ PublishSteps[1].status = 200

\* the URL schemes a path is tested against
UrlSchemes == {<<"h", "t", "t", "p", ":", "/", "/">>,
               <<"h", "t", "t", "p", "s", ":", "/", "/">>}
BeginsWithScheme(path) == \E scheme \in UrlSchemes : startswith(path, scheme)

\* C17: in post_to_threads and in post_reply, a non-empty media path that
\* begins with a URL scheme is used as the media URL and is never given to
\* the upload step, and every non-empty media path that does not begin with
\* a URL scheme is given to the upload step.
C17_UrlNeverUploaded ==
    (pc # "media" /\ ~call.media_path.none /\ Trimmed(call.media_path.str) # EMPTY_STR) =>
        LET path == Trimmed(call.media_path.str)
        IN  IF BeginsWithScheme(path)
            THEN UploadSteps = << >> /\ call.media_url = path
            ELSE Len(UploadSteps) = 1

====
